---- MODULE Spec2Model ----
(***************************************************************************)
(* Model of visualizer.py: the Visualizer class with its two pure          *)
(* operations create_instruction_graph and text_report, driven by a caller *)
(* that builds the argument objects and calls the operations in any order. *)
(*                                                                         *)
(*   arg     the argument object the caller holds for its calls            *)
(*   result  what the last call on arg gave the caller (Pending: no call   *)
(*           since the caller last edited arg)                             *)
(*   lines   the local list lines of the text_report call made on arg,     *)
(*           empty before that call                                        *)
(*   ref     an earlier call (arguments and outcome) the caller kept       *)
(*                                                                         *)
(* Python strings are sequences of one-character strings, so that split,   *)
(* startswith, join and the f-string formatting are computed character by  *)
(* character.  A dict is a function (ptx_data, a kernel record, the diff   *)
(* report, a change record); the one dict the code iterates,               *)
(* changed_kernels, is the sequence of its items in insertion order.       *)
(***************************************************************************)
EXTENDS Integers, Sequences, FiniteSets, TLC

VARIABLES arg, result, lines, ref

vars == <<arg, result, lines, ref>>

(***************************************************************************)
(* Bounds of the caller's argument objects.                                *)
(***************************************************************************)
\* instructions in ptx_data, over all kernels
MaxInstr == 3
\* items of a diff report: names in new_kernels and removed_kernels plus
\* newline-separated segments in the instruction_diff texts
MaxItems == 4

(***************************************************************************)
(* String literals of the source.                                          *)
(***************************************************************************)
SpanAddedOpen ==
    <<"<", "s", "p", "a", "n", " ", "c", "l", "a", "s", "s", "=", "'", "a", "d", "d", "e", "d", "'", ">">>
SpanRemovedOpen ==
    <<"<", "s", "p", "a", "n", " ", "c", "l", "a", "s", "s", "=", "'", "r", "e", "m", "o", "v", "e", "d", "'", ">">>
SpanLineNumberOpen ==
    <<"<", "s", "p", "a", "n", " ", "c", "l", "a", "s", "s", "=", "'", "l", "i", "n", "e", "-", "n", "u", "m", "b", "e", "r", "'", ">">>
SpanClose ==
    <<"<", "/", "s", "p", "a", "n", ">">>
NewKernelsFound ==
    <<"N", "e", "w", " ", "K", "e", "r", "n", "e", "l", "s", " ", "F", "o", "u", "n", "d", ":", " ">>
RemovedKernels ==
    <<"R", "e", "m", "o", "v", "e", "d", " ", "K", "e", "r", "n", "e", "l", "s", ":", " ">>
HeadingOpen ==
    <<"<", "h", "3", ">", "C", "h", "a", "n", "g", "e", "s", " ", "i", "n", " ">>
HeadingClose ==
    <<":", "<", "/", "h", "3", ">">>
CommaSpace ==
    <<",", " ">>
ColonSpace ==
    <<":", " ">>
Space ==
    <<" ">>
Newline ==
    <<"\n">>

(***************************************************************************)
(* Python built-ins the two operations use.                                *)
(***************************************************************************)
EmptyDict == [k \in {} |-> {}]

\* sep.join(parts)
RECURSIVE Join(_, _)
Join(sep, parts) ==
    IF parts = <<>> THEN <<>>
    ELSE IF Len(parts) = 1 THEN parts[1]
    ELSE parts[1] \o sep \o Join(sep, Tail(parts))

\* s.split("\n"): scan left to right, close a segment at every newline;
\* the text after the last newline (possibly empty) is the last segment.
RECURSIVE SplitFrom(_, _, _)
SplitFrom(s, i, cur) ==
    IF i > Len(s) THEN <<cur>>
    ELSE IF s[i] = "\n" THEN <<cur>> \o SplitFrom(s, i + 1, <<>>)
    ELSE SplitFrom(s, i + 1, Append(cur, s[i]))

\* variant: a trailing empty segment is dropped, as s.splitlines() does
SplitDropTrailing(s) ==
    LET segs == SplitFrom(s, 1, <<>>)
    IN  IF segs[Len(segs)] = <<>> THEN SubSeq(segs, 1, Len(segs) - 1) ELSE segs

Split(s) == SplitFrom(s, 1, <<>>)

\* s.startswith(c) for a one-character prefix
StartsWith(s, c) == Len(s) >= 1 /\ s[1] = c

\* str(n) for an int n >= 0
Digit(d) == <<"0", "1", "2", "3", "4", "5", "6", "7", "8", "9">>[d + 1]

RECURSIVE IntStr(_)
IntStr(n) ==
    IF n < 10 THEN <<Digit(n)>> ELSE IntStr(n \div 10) \o <<Digit(n % 10)>>

\* repr(s) of a str: double quotes when s holds a single quote and no
\* double quote, single quotes otherwise; backslash, the chosen quote and
\* the control characters are escaped.
ReprQuote(s) ==
    IF (\E i \in 1..Len(s) : s[i] = "'") /\ ~(\E i \in 1..Len(s) : s[i] = "\"")
    THEN "\"" ELSE "'"

ReprChar(c, q) ==
    IF c = "\\" THEN <<"\\", "\\">>
    ELSE IF c = q THEN <<"\\", q>>
    ELSE IF c = "\n" THEN <<"\\", "n">>
    ELSE IF c = "\t" THEN <<"\\", "t">>
    ELSE IF c = "\r" THEN <<"\\", "r">>
    ELSE <<c>>

RECURSIVE ReprBody(_, _)
ReprBody(s, q) ==
    IF s = <<>> THEN <<>> ELSE ReprChar(Head(s), q) \o ReprBody(Tail(s), q)

Repr(s) == <<ReprQuote(s)>> \o ReprBody(s, ReprQuote(s)) \o <<ReprQuote(s)>>

\* str(xs) of a list of str: "[" + ", ".join(repr(x) for x in xs) + "]"
ListStr(xs) ==
    <<"[">> \o Join(CommaSpace, [i \in 1..Len(xs) |-> Repr(xs[i])]) \o <<"]">>

(***************************************************************************)
(* Dict keys of the argument objects, the caller's kernel names and        *)
(* instruction records.                                                    *)
(***************************************************************************)
KeyInstructions ==
    <<"i", "n", "s", "t", "r", "u", "c", "t", "i", "o", "n", "s">>
KeyOpcode ==
    <<"o", "p", "c", "o", "d", "e">>
KeyOperands ==
    <<"o", "p", "e", "r", "a", "n", "d", "s">>
KeyNewKernels ==
    <<"n", "e", "w", "_", "k", "e", "r", "n", "e", "l", "s">>
KeyRemovedKernels ==
    <<"r", "e", "m", "o", "v", "e", "d", "_", "k", "e", "r", "n", "e", "l", "s">>
KeyChangedKernels ==
    <<"c", "h", "a", "n", "g", "e", "d", "_", "k", "e", "r", "n", "e", "l", "s">>
KeyInstructionDiff ==
    <<"i", "n", "s", "t", "r", "u", "c", "t", "i", "o", "n", "_", "d", "i", "f", "f">>

\* kernel names: "k1", and "k\n" whose text holds a newline
NameK1 == <<"k", "1">>
NameKNl == <<"k", "\n">>
Names == {NameK1, NameKNl}

Instruction(opcode, operands) ==
    (KeyOpcode :> opcode) @@ (KeyOperands :> operands)

\* add ['r1', 'r2'] ; ret [] ; ld ["p'"]
InsAdd == Instruction(<<"a", "d", "d">>, << <<"r", "1">>, <<"r", "2">> >>)
InsRet == Instruction(<<"r", "e", "t">>, <<>>)
InsLd == Instruction(<<"l", "d">>, << <<"p", "'">> >>)
Instructions == {InsAdd, InsRet, InsLd}

(***************************************************************************)
(* Outcome of a call, as the caller sees it.                               *)
(***************************************************************************)
Pending == [kind |-> "pending"]
Returned(v) == [kind |-> "return", value |-> v]
KeyError(k) == [kind |-> "KeyError", key |-> k]

(***************************************************************************)
(* networkx.DiGraph: nodes with their attribute dicts, directed edges.     *)
(***************************************************************************)
DiGraph == [nodes |-> EmptyDict, edges |-> {}]

\* G.add_node(n, label=l): a new node, or the label of an existing one
AddNode(G, n, l) ==
    [G EXCEPT !.nodes = (n :> ("label" :> l)) @@ G.nodes]

\* G.add_edge(u, v): adds the end nodes when missing
AddEdge(G, u, v) ==
    [nodes |-> G.nodes @@ (u :> EmptyDict) @@ (v :> EmptyDict),
     edges |-> G.edges \cup {<<u, v>>}]

(***************************************************************************)
(* create_instruction_graph                                                *)
(***************************************************************************)
\* variant: node labels numbered from 1
NodeLabelOneBased(idx, ins) ==
    IntStr(idx + 1) \o ColonSpace \o ins[KeyOpcode] \o Space \o ListStr(ins[KeyOperands])

NodeLabel(idx, ins) ==
    IntStr(idx) \o ColonSpace \o ins[KeyOpcode] \o Space \o ListStr(ins[KeyOperands])

\* for idx, ins in enumerate(instructions): G.add_node(idx, label=...)
RECURSIVE AddNodes(_, _, _)
AddNodes(G, instructions, idx) ==
    IF idx >= Len(instructions) THEN G
    ELSE AddNodes(AddNode(G, idx, NodeLabel(idx, instructions[idx + 1])),
                  instructions, idx + 1)

\* variant: range(len(instructions)), one edge past the last instruction
RECURSIVE AddEdgesOnePast(_, _, _)
AddEdgesOnePast(G, n, i) ==
    IF i >= n THEN G ELSE AddEdgesOnePast(AddEdge(G, i, i + 1), n, i + 1)

\* for i in range(len(instructions) - 1): G.add_edge(i, i + 1)
RECURSIVE AddEdges(_, _, _)
AddEdges(G, n, i) ==
    IF i >= n - 1 THEN G ELSE AddEdges(AddEdge(G, i, i + 1), n, i + 1)

\* variant: ptx_data.get(kernel_name, {"instructions": []}), an empty graph
\* for an unknown kernel
CreateInstructionGraphLenient(ptx_data, kernel_name) ==
    IF kernel_name \notin DOMAIN ptx_data THEN Returned(DiGraph)
    ELSE IF KeyInstructions \notin DOMAIN ptx_data[kernel_name]
    THEN KeyError(KeyInstructions)
    ELSE LET instructions == ptx_data[kernel_name][KeyInstructions]
         IN  Returned(AddEdges(AddNodes(DiGraph, instructions, 0),
                               Len(instructions), 0))

CreateInstructionGraphRun(ptx_data, kernel_name) ==
    IF kernel_name \notin DOMAIN ptx_data THEN KeyError(kernel_name)
    ELSE IF KeyInstructions \notin DOMAIN ptx_data[kernel_name]
    THEN KeyError(KeyInstructions)
    ELSE LET instructions == ptx_data[kernel_name][KeyInstructions]
         IN  Returned(AddEdges(AddNodes(DiGraph, instructions, 0),
                               Len(instructions), 0))

(***************************************************************************)
(* text_report                                                             *)
(*                                                                         *)
(* A frame is the state of one call: the local list lines, and the         *)
(* KeyError that ended the call, if one did.                               *)
(***************************************************************************)
Running(ls) == [lines |-> ls, raised |-> FALSE, key |-> <<>>]
Raise(ls, k) == [lines |-> ls, raised |-> TRUE, key |-> k]

\* variant: the line is appended without the test for an empty list
NewKernelsStepAlways(diff_report, ls) ==
    IF KeyNewKernels \notin DOMAIN diff_report THEN Raise(ls, KeyNewKernels)
    ELSE Running(Append(ls,
             SpanAddedOpen \o NewKernelsFound
                 \o Join(CommaSpace, diff_report[KeyNewKernels]) \o SpanClose))

\* if diff_report["new_kernels"]: lines.append(...)
NewKernelsStep(diff_report, ls) ==
    IF KeyNewKernels \notin DOMAIN diff_report THEN Raise(ls, KeyNewKernels)
    ELSE IF diff_report[KeyNewKernels] # <<>>
    THEN Running(Append(ls,
             SpanAddedOpen \o NewKernelsFound
                 \o Join(CommaSpace, diff_report[KeyNewKernels]) \o SpanClose))
    ELSE Running(ls)

\* if diff_report["removed_kernels"]: lines.append(...)
RemovedKernelsStep(diff_report, ls) ==
    IF KeyRemovedKernels \notin DOMAIN diff_report
    THEN Raise(ls, KeyRemovedKernels)
    ELSE IF diff_report[KeyRemovedKernels] # <<>>
    THEN Running(Append(ls,
             SpanRemovedOpen \o RemovedKernels
                 \o Join(CommaSpace, diff_report[KeyRemovedKernels]) \o SpanClose))
    ELSE Running(ls)

\* variant: line.lstrip().startswith, leading spaces skipped
RECURSIVE LStrip(_)
LStrip(s) ==
    IF s # <<>> /\ Head(s) = " " THEN LStrip(Tail(s)) ELSE s

WrapLineStripped(line) ==
    IF StartsWith(LStrip(line), "+") THEN SpanAddedOpen \o line \o SpanClose
    ELSE IF StartsWith(LStrip(line), "-") THEN SpanRemovedOpen \o line \o SpanClose
    ELSE SpanLineNumberOpen \o line \o SpanClose

\* the if / elif / else on line.startswith
WrapLine(line) ==
    IF StartsWith(line, "+") THEN SpanAddedOpen \o line \o SpanClose
    ELSE IF StartsWith(line, "-") THEN SpanRemovedOpen \o line \o SpanClose
    ELSE SpanLineNumberOpen \o line \o SpanClose

\* for line in diff_lines: lines.append(<wrapped line>)
RECURSIVE DiffLoop(_, _, _)
DiffLoop(diff_lines, j, ls) ==
    IF j > Len(diff_lines) THEN ls
    ELSE DiffLoop(diff_lines, j + 1, Append(ls, WrapLine(diff_lines[j])))

\* variant: the entries are visited last to first
ItemsReversed(changed) ==
    [i \in 1..Len(changed) |-> changed[Len(changed) + 1 - i]]

\* the order in which .items() yields the entries of changed_kernels
ItemsOrder(changed) == changed

\* for kernel, changes in diff_report["changed_kernels"].items(): ...
RECURSIVE KernelLoop(_, _, _)
KernelLoop(items, i, ls) ==
    IF i > Len(items) THEN Running(ls)
    ELSE LET kernel == items[i].key
             changes == items[i].value
             headed == Append(ls, HeadingOpen \o kernel \o HeadingClose)
         IN  IF KeyInstructionDiff \notin DOMAIN changes
             THEN Raise(headed, KeyInstructionDiff)
             ELSE KernelLoop(items, i + 1,
                      DiffLoop(Split(changes[KeyInstructionDiff]), 1, headed))

ChangedKernelsStep(diff_report, ls) ==
    IF KeyChangedKernels \notin DOMAIN diff_report
    THEN Raise(ls, KeyChangedKernels)
    ELSE KernelLoop(ItemsOrder(diff_report[KeyChangedKernels]), 1, ls)

\* the body of text_report from a given list up to the return
TextReportFrame(diff_report, ls) ==
    LET f1 == NewKernelsStep(diff_report, ls)
        f2 == IF f1.raised THEN f1 ELSE RemovedKernelsStep(diff_report, f1.lines)
    IN  IF f2.raised THEN f2 ELSE ChangedKernelsStep(diff_report, f2.lines)

\* variant: the KeyError is caught and the lines so far are returned
TextReportOutcomePartial(frame) ==
    Returned(Join(Newline, frame.lines))

\* return "\n".join(lines), or the KeyError that left the call
TextReportOutcome(frame) ==
    IF frame.raised THEN KeyError(frame.key)
    ELSE Returned(Join(Newline, frame.lines))

\* variant: one list shared by all calls (a default argument, a class
\* attribute) instead of a new one per call
SharedList == lines

\* lines = []
NewList == <<>>

(***************************************************************************)
(* The caller.  arg is the argument object of the next call: the data and  *)
(* kernel name for create_instruction_graph, or the diff report for        *)
(* text_report.  The caller builds it piece by piece, within the bounds.   *)
(***************************************************************************)
GraphArgs(ptx_data, kernel_name) ==
    [fn |-> "graph", ptx_data |-> ptx_data, kernel_name |-> kernel_name]
ReportArgs(diff_report) ==
    [fn |-> "report", diff_report |-> diff_report]

\* others: a call with other arguments was made since this one was kept
NoRef == [kind |-> "none"]
Call(a, r) == [kind |-> "call", arg |-> a, result |-> r, others |-> FALSE]

Keep(keep, a, r) ==
    IF keep THEN Call(a, r)
    ELSE IF ref.kind = "call" /\ ref.arg # a THEN [ref EXCEPT !.others = TRUE]
    ELSE ref

\* segments of an instruction_diff: "", "+a", "-s", " +"
SegEmpty == <<>>
SegAdded == <<"+", "a">>
SegRemoved == <<"-", "s">>
SegContext == <<" ", "+">>
Segments == {SegEmpty, SegAdded, SegRemoved, SegContext}

RECURSIVE SumSeq(_)
SumSeq(ns) == IF ns = <<>> THEN 0 ELSE Head(ns) + SumSeq(Tail(ns))

NewlineCount(s) == Cardinality({i \in 1..Len(s) : s[i] = "\n"})

InstrCount(ptx_data) ==
    LET n(k) == IF k \in DOMAIN ptx_data /\ KeyInstructions \in DOMAIN ptx_data[k]
                THEN Len(ptx_data[k][KeyInstructions]) ELSE 0
    IN  n(NameK1) + n(NameKNl)

ItemCount(diff_report) ==
    LET names(f) == IF f \in DOMAIN diff_report THEN Len(diff_report[f]) ELSE 0
        changed == IF KeyChangedKernels \in DOMAIN diff_report
                   THEN diff_report[KeyChangedKernels] ELSE <<>>
        segs(c) == IF KeyInstructionDiff \in DOMAIN c
                   THEN 1 + NewlineCount(c[KeyInstructionDiff]) ELSE 0
    IN  names(KeyNewKernels) + names(KeyRemovedKernels)
            + SumSeq([i \in 1..Len(changed) |-> segs(changed[i].value)])

\* the caller's edit of the argument object; the last outcome is dropped
Build(a) ==
    /\ arg' = a
    /\ result' = Pending
    /\ lines' = <<>>
    /\ UNCHANGED ref

NewGraphArgs ==
    /\ arg' \in {GraphArgs(EmptyDict, k) : k \in Names}
    /\ result' = Pending
    /\ lines' = <<>>
    /\ UNCHANGED ref

AddKernel ==
    /\ arg.fn = "graph"
    /\ \E k \in Names \ DOMAIN arg.ptx_data :
         \E rec \in {EmptyDict, KeyInstructions :> <<>>} :
            Build([arg EXCEPT !.ptx_data = (k :> rec) @@ @])

AppendInstruction ==
    /\ arg.fn = "graph"
    /\ InstrCount(arg.ptx_data) < MaxInstr
    /\ \E k \in DOMAIN arg.ptx_data, ins \in Instructions :
         /\ KeyInstructions \in DOMAIN arg.ptx_data[k]
         /\ Build([arg EXCEPT !.ptx_data[k][KeyInstructions] = Append(@, ins)])

NewReport ==
    /\ arg' = ReportArgs(EmptyDict)
    /\ result' = Pending
    /\ lines' = <<>>
    /\ UNCHANGED ref

SetKernelList ==
    /\ arg.fn = "report"
    /\ \E f \in {KeyNewKernels, KeyRemovedKernels} \ DOMAIN arg.diff_report :
         Build([arg EXCEPT !.diff_report = (f :> <<>>) @@ @])

AppendKernelName ==
    /\ arg.fn = "report"
    /\ ItemCount(arg.diff_report) < MaxItems
    /\ \E f \in {KeyNewKernels, KeyRemovedKernels} \cap DOMAIN arg.diff_report :
         \E k \in Names :
            Build([arg EXCEPT !.diff_report[f] = Append(@, k)])

SetChangedKernels ==
    /\ arg.fn = "report"
    /\ KeyChangedKernels \notin DOMAIN arg.diff_report
    /\ Build([arg EXCEPT !.diff_report = (KeyChangedKernels :> <<>>) @@ @])

AddChangedKernel ==
    /\ arg.fn = "report"
    /\ KeyChangedKernels \in DOMAIN arg.diff_report
    /\ LET changed == arg.diff_report[KeyChangedKernels]
       IN  \E k \in Names \ {changed[i].key : i \in 1..Len(changed)} :
              Build([arg EXCEPT !.diff_report[KeyChangedKernels] =
                        Append(@, [key |-> k, value |-> EmptyDict])])

AppendDiffSegment ==
    /\ arg.fn = "report"
    /\ KeyChangedKernels \in DOMAIN arg.diff_report
    /\ ItemCount(arg.diff_report) < MaxItems
    /\ \E i \in 1..Len(arg.diff_report[KeyChangedKernels]), seg \in Segments :
         LET changes == arg.diff_report[KeyChangedKernels][i].value
             text == IF KeyInstructionDiff \in DOMAIN changes
                     THEN changes[KeyInstructionDiff] \o Newline \o seg
                     ELSE seg
         IN  Build([arg EXCEPT !.diff_report[KeyChangedKernels][i].value =
                       (KeyInstructionDiff :> text) @@ @])

(***************************************************************************)
(* The two operations as the caller runs them.  keep: the caller keeps     *)
(* this call's arguments and outcome for a later comparison.               *)
(***************************************************************************)
\* variant: the instruction list is consumed while the nodes are added
\* (instructions.pop(0) in the loop)
CreateInstructionGraphConsuming(keep) ==
    /\ arg.fn = "graph"
    /\ result' = CreateInstructionGraphRun(arg.ptx_data, arg.kernel_name)
    /\ ref' = Keep(keep, arg, result')
    /\ arg' = IF result'.kind = "return"
              THEN [arg EXCEPT !.ptx_data[arg.kernel_name][KeyInstructions] = <<>>]
              ELSE arg
    /\ UNCHANGED lines

CreateInstructionGraph(keep) ==
    /\ arg.fn = "graph"
    /\ result' = CreateInstructionGraphRun(arg.ptx_data, arg.kernel_name)
    /\ ref' = Keep(keep, arg, result')
    /\ UNCHANGED <<arg, lines>>

TextReport(keep) ==
    /\ arg.fn = "report"
    /\ LET frame == TextReportFrame(arg.diff_report, NewList)
       IN  /\ lines' = frame.lines
           /\ result' = TextReportOutcome(frame)
    /\ ref' = Keep(keep, arg, result')
    /\ UNCHANGED arg

Init ==
    /\ arg \in {ReportArgs(EmptyDict)} \cup {GraphArgs(EmptyDict, k) : k \in Names}
    /\ result = Pending
    /\ lines = <<>>
    /\ ref = NoRef

Next ==
    \/ NewGraphArgs
    \/ AddKernel
    \/ AppendInstruction
    \/ NewReport
    \/ SetKernelList
    \/ AppendKernelName
    \/ SetChangedKernels
    \/ AddChangedKernel
    \/ AppendDiffSegment
    \/ CreateInstructionGraph(FALSE)
    \/ TextReport(FALSE)

Spec == Init /\ [][Next]_vars

(***************************************************************************)
(* Sequences of calls: the caller switches between a few complete          *)
(* argument objects, calls either operation any number of times, and may   *)
(* keep a call to compare a later one with.                                *)
(***************************************************************************)
InstructionsOf(instructions) == KeyInstructions :> instructions
DiffOf(text) == KeyInstructionDiff :> text

Report(new, removed, changed) ==
    (KeyNewKernels :> new) @@ (KeyRemovedKernels :> removed)
        @@ (KeyChangedKernels :> changed)

SeqArgs ==
    { GraphArgs(EmptyDict, NameK1),
      GraphArgs(NameK1 :> InstructionsOf(<<InsAdd, InsAdd>>), NameK1),
      GraphArgs(NameK1 :> InstructionsOf(<<InsAdd, InsLd, InsRet>>), NameK1),
      GraphArgs((NameK1 :> InstructionsOf(<<InsRet>>)) @@ (NameKNl :> EmptyDict),
                NameKNl),
      ReportArgs(Report(<<>>, <<>>, <<>>)),
      ReportArgs(Report(<<NameK1>>, <<>>, <<>>)),
      ReportArgs(KeyNewKernels :> <<NameK1>>),
      ReportArgs(Report(<<NameK1, NameKNl>>, <<NameK1>>,
                        << [key |-> NameK1,
                            value |-> DiffOf(SegAdded \o Newline \o SegRemoved
                                                \o Newline \o SegContext)] >>)),
      ReportArgs(Report(<<>>, <<NameKNl>>,
                        << [key |-> NameKNl, value |-> DiffOf(SegEmpty)],
                           [key |-> NameK1, value |-> EmptyDict] >>)) }

PrepareSeq ==
    /\ arg' \in SeqArgs
    /\ result' = Pending
    /\ lines' = <<>>
    /\ UNCHANGED ref

NextSeq ==
    \/ PrepareSeq
    \/ \E keep \in BOOLEAN : CreateInstructionGraph(keep)
    \/ \E keep \in BOOLEAN : TextReport(keep)

SpecSeq == Init /\ [][NextSeq]_vars

(***************************************************************************)
(* Properties of create_instruction_graph.                                 *)
(***************************************************************************)
GraphCalled == arg.fn = "graph" /\ result # Pending
ReportCalled == arg.fn = "report" /\ result # Pending

\* the kernel asked for is in the mapping and has an instruction list
HasInstructionList ==
    /\ arg.kernel_name \in DOMAIN arg.ptx_data
    /\ KeyInstructions \in DOMAIN arg.ptx_data[arg.kernel_name]

InstructionList == arg.ptx_data[arg.kernel_name][KeyInstructions]

Max(a, b) == IF a >= b THEN a ELSE b

\* the nodes reachable from the set S along the edges E, S included
RECURSIVE Closure(_, _)
Closure(E, S) ==
    LET T == S \cup {e[2] : e \in {f \in E : f[1] \in S}}
    IN  IF T = S THEN S ELSE Closure(E, T)

\* a directed path: no node with two successors or two predecessors, no
\* node that reaches itself, and one edge less than nodes
SimplePath(G) ==
    /\ \A e, f \in G.edges : (e[1] = f[1] \/ e[2] = f[2]) => e = f
    /\ \A e \in G.edges : e[1] \notin Closure(G.edges, {e[2]})
    /\ Cardinality(G.edges) = Max(0, Cardinality(DOMAIN G.nodes) - 1)

\* C1: for a kernel of the mapping with n instructions the call returns a
\* graph with exactly the nodes 0..n-1 and exactly the max(0, n-1) edges
\* (i, i+1), 0 <= i <= n-2: a simple path, empty for n = 0 and a single
\* node for n = 1.
C1_ChainGraph ==
    (GraphCalled /\ HasInstructionList) =>
        LET n == Len(InstructionList)
            G == result.value
        IN  /\ result.kind = "return"
            /\ DOMAIN G.nodes = 0..(n - 1)
            /\ Cardinality(DOMAIN G.nodes) = n
            /\ G.edges = {<<i, i + 1>> : i \in 0..(n - 2)}
            /\ Cardinality(G.edges) = Max(0, n - 1)
            /\ SimplePath(G)
            /\ (n = 0 => G.nodes = EmptyDict /\ G.edges = {})
            /\ (n = 1 => DOMAIN G.nodes = {0} /\ G.edges = {})

C1_Witness ==
    /\ GraphCalled
    /\ HasInstructionList
    /\ Len(InstructionList) >= 3
    /\ result.kind = "return"
    /\ <<1, 2>> \in result.value.edges

\* C2: when kernel_name is no key of the mapping the call ends with the
\* KeyError of that key and the caller gets no graph.
C2_MissingKernel ==
    (GraphCalled /\ arg.kernel_name \notin DOMAIN arg.ptx_data) =>
        /\ result.kind = "KeyError"
        /\ result.key = arg.kernel_name
        /\ "value" \notin DOMAIN result

C2_Witness ==
    /\ GraphCalled
    /\ arg.kernel_name \notin DOMAIN arg.ptx_data
    /\ \E k \in DOMAIN arg.ptx_data :
         /\ KeyInstructions \in DOMAIN arg.ptx_data[k]
         /\ arg.ptx_data[k][KeyInstructions] # <<>>
    /\ result.kind = "KeyError"

\* the label text after the index, as Python prints the three instruction
\* records of the model
LabelText(ins) ==
    IF ins = InsAdd THEN <<":", " ", "a", "d", "d", " ", "[", "'", "r", "1", "'", ",", " ", "'", "r", "2", "'", "]">>
    ELSE IF ins = InsRet THEN <<":", " ", "r", "e", "t", " ", "[", "]">>
    ELSE <<":", " ", "l", "d", " ", "[", "\"", "p", "'", "\"", "]">>

\* C8: node i of the returned graph carries the label
\* "<i>: <opcode> <operands>" of the instruction at position i, the
\* operands in the list's default string form; equal instructions still
\* get one node each.
C8_NodeLabels ==
    (GraphCalled /\ HasInstructionList) =>
        LET n == Len(InstructionList)
            G == result.value
        IN  /\ result.kind = "return"
            /\ Cardinality(DOMAIN G.nodes) = n
            /\ \A i \in 0..(n - 1) :
                 LET ins == InstructionList[i + 1]
                     label == G.nodes[i]["label"]
                     d == Len(IntStr(i))
                     o == Len(ins[KeyOpcode])
                 IN  /\ i \in DOMAIN G.nodes
                     /\ DOMAIN G.nodes[i] = {"label"}
                     /\ label = IntStr(i) \o LabelText(ins)
                     /\ SubSeq(label, 1, d) = IntStr(i)
                     /\ SubSeq(label, d + 1, d + 2) = ColonSpace
                     /\ SubSeq(label, d + 3, d + 2 + o) = ins[KeyOpcode]
                     /\ label[d + 3 + o] = " "
                     /\ SubSeq(label, d + 4 + o, Len(label)) = ListStr(ins[KeyOperands])

C8_Witness ==
    /\ GraphCalled
    /\ HasInstructionList
    /\ result.kind = "return"
    /\ Len(InstructionList) >= 3
    /\ InstructionList[1] = InstructionList[2]
    /\ InstructionList[3] = InsLd
    /\ result.value.nodes[0]["label"] # result.value.nodes[1]["label"]

(***************************************************************************)
(* Properties of text_report.  The expected report is described by         *)
(* position: where the newlines of an instruction_diff are, and at which   *)
(* index of lines each kernel's block starts.                              *)
(***************************************************************************)
HasFields ==
    {KeyNewKernels, KeyRemovedKernels, KeyChangedKernels} \subseteq DOMAIN arg.diff_report

\* every field the call reads is there
WellFormed ==
    /\ HasFields
    /\ \A i \in 1..Len(arg.diff_report[KeyChangedKernels]) :
         KeyInstructionDiff \in DOMAIN arg.diff_report[KeyChangedKernels][i].value

NewNames == arg.diff_report[KeyNewKernels]
RemovedNames == arg.diff_report[KeyRemovedKernels]
Changed == arg.diff_report[KeyChangedKernels]
DiffText(i) == Changed[i].value[KeyInstructionDiff]

HasPrefix(s, p) == Len(s) >= Len(p) /\ SubSeq(s, 1, Len(p)) = p
HasSuffix(s, p) == Len(s) >= Len(p) /\ SubSeq(s, Len(s) - Len(p) + 1, Len(s)) = p

\* the position of the j-th newline of s; 0 before the first, Len(s) + 1
\* after the last
NewlineAt(s, j) ==
    IF j = 0 THEN 0
    ELSE IF j > NewlineCount(s) THEN Len(s) + 1
    ELSE CHOOSE p \in 1..Len(s) :
            s[p] = "\n" /\ Cardinality({q \in 1..p : s[q] = "\n"}) = j

\* the text between the (j-1)-th and the j-th newline
Segment(s, j) == SubSeq(s, NewlineAt(s, j - 1) + 1, NewlineAt(s, j) - 1)

HeaderCount ==
    (IF NewNames # <<>> THEN 1 ELSE 0) + (IF RemovedNames # <<>> THEN 1 ELSE 0)

\* the number of lines before the heading of the i-th changed kernel
BlockStart(i) ==
    HeaderCount + SumSeq([q \in 1..(i - 1) |-> 2 + NewlineCount(DiffText(q))])

\* out is the lines ls with one newline between consecutive lines
IsJoined(out, ls) ==
    LET off(p) == SumSeq([q \in 1..(p - 1) |-> Len(ls[q]) + 1])
    IN  /\ Len(out) = SumSeq([q \in 1..Len(ls) |-> Len(ls[q])]) + Max(0, Len(ls) - 1)
        /\ \A p \in 1..Len(ls) :
             /\ SubSeq(out, off(p) + 1, off(p) + Len(ls[p])) = ls[p]
             /\ p < Len(ls) => out[off(p) + Len(ls[p]) + 1] = "\n"

SpanOpens == {SpanAddedOpen, SpanRemovedOpen, SpanLineNumberOpen}

\* C3: the output is the emitted lines joined by newline, in the order:
\* the new-kernels line (if any), the removed-kernels line (if any), then
\* per changed kernel, in the mapping's insertion order, its heading
\* immediately followed by one wrapped line per segment in segment order.
C3_OutputOrder ==
    (ReportCalled /\ WellFormed) =>
        /\ result.kind = "return"
        /\ IsJoined(result.value, lines)
        /\ Len(lines) = BlockStart(Len(Changed) + 1)
        /\ NewNames # <<>> => HasPrefix(lines[1], SpanAddedOpen \o NewKernelsFound)
        /\ RemovedNames # <<>> =>
              HasPrefix(lines[HeaderCount], SpanRemovedOpen \o RemovedKernels)
        /\ \A i \in 1..Len(Changed) :
             /\ lines[BlockStart(i) + 1] = HeadingOpen \o Changed[i].key \o HeadingClose
             /\ \A j \in 1..(1 + NewlineCount(DiffText(i))) :
                  LET line == lines[BlockStart(i) + 1 + j]
                      seg == Segment(DiffText(i), j)
                  IN  \E open \in SpanOpens : line = open \o seg \o SpanClose

C3_Witness ==
    /\ ReportCalled
    /\ WellFormed
    /\ result.kind = "return"
    /\ NewNames # <<>>
    /\ Len(Changed) = 2
    /\ Changed[1].key = NameK1
    /\ NewlineCount(DiffText(1)) >= 1
    /\ Segment(DiffText(1), 1) # Segment(DiffText(1), 2)
    /\ DiffText(1) # DiffText(2)

\* the wrapped line of each segment of the model, as the source prints it
SegmentLine(seg) ==
    IF seg = SegAdded THEN <<"<", "s", "p", "a", "n", " ", "c", "l", "a", "s", "s", "=", "'", "a", "d", "d", "e", "d", "'", ">", "+", "a", "<", "/", "s", "p", "a", "n", ">">>
    ELSE IF seg = SegRemoved THEN <<"<", "s", "p", "a", "n", " ", "c", "l", "a", "s", "s", "=", "'", "r", "e", "m", "o", "v", "e", "d", "'", ">", "-", "s", "<", "/", "s", "p", "a", "n", ">">>
    ELSE IF seg = SegContext THEN <<"<", "s", "p", "a", "n", " ", "c", "l", "a", "s", "s", "=", "'", "l", "i", "n", "e", "-", "n", "u", "m", "b", "e", "r", "'", ">", " ", "+", "<", "/", "s", "p", "a", "n", ">">>
    ELSE <<"<", "s", "p", "a", "n", " ", "c", "l", "a", "s", "s", "=", "'", "l", "i", "n", "e", "-", "n", "u", "m", "b", "e", "r", "'", ">", "<", "/", "s", "p", "a", "n", ">">>

\* C4: every segment is wrapped in the style its first character decides:
\* '+' added, '-' removed, anything else (the empty segment, a space
\* before '+') line-number, with the segment's text unchanged inside.
C4_SegmentStyle ==
    (ReportCalled /\ WellFormed) =>
        \A i \in 1..Len(Changed) :
            \A j \in 1..(1 + NewlineCount(DiffText(i))) :
                LET line == lines[BlockStart(i) + 1 + j]
                    seg == Segment(DiffText(i), j)
                    open == IF seg # <<>> /\ seg[1] = "+" THEN SpanAddedOpen
                            ELSE IF seg # <<>> /\ seg[1] = "-" THEN SpanRemovedOpen
                            ELSE SpanLineNumberOpen
                IN  /\ line = open \o seg \o SpanClose
                    /\ line = SegmentLine(seg)

\* the diff "+a\n-s\n +": added, removed, line-number in that order
C4_Witness ==
    /\ ReportCalled
    /\ WellFormed
    /\ result.kind = "return"
    /\ NewNames = <<>>
    /\ RemovedNames = <<>>
    /\ Len(Changed) = 1
    /\ Changed[1].key = NameK1
    /\ DiffText(1) = SegAdded \o Newline \o SegRemoved \o Newline \o SegContext
    /\ HasPrefix(lines[2], SpanAddedOpen)
    /\ HasPrefix(lines[3], SpanRemovedOpen)
    /\ HasPrefix(lines[4], SpanLineNumberOpen)

LinesWithPrefix(p) == {q \in 1..Len(lines) : HasPrefix(lines[q], p)}

\* C5: the new-kernels line is emitted iff new_kernels is non-empty, the
\* removed-kernels line iff removed_kernels is non-empty, each once and
\* with all its names joined by ", "; new_kernels = ['k1'] alone gives
\* exactly that one line and three empty fields give the empty string.
C5_KernelListLines ==
    /\ (ReportCalled /\ KeyNewKernels \in DOMAIN arg.diff_report) =>
          LET at == LinesWithPrefix(SpanAddedOpen \o NewKernelsFound)
          IN  /\ Cardinality(at) = IF NewNames # <<>> THEN 1 ELSE 0
              /\ NewNames # <<>> =>
                    /\ at = {1}
                    /\ lines[1] = SpanAddedOpen \o NewKernelsFound
                                     \o Join(CommaSpace, NewNames) \o SpanClose
              /\ NewNames = <<NameK1, NameKNl>> => lines[1] = <<"<", "s", "p", "a", "n", " ", "c", "l", "a", "s", "s", "=", "'", "a", "d", "d", "e", "d", "'", ">", "N", "e", "w", " ", "K", "e", "r", "n", "e", "l", "s", " ", "F", "o", "u", "n", "d", ":", " ", "k", "1", ",", " ", "k", "\n", "<", "/", "s", "p", "a", "n", ">">>
    /\ (ReportCalled /\ {KeyNewKernels, KeyRemovedKernels} \subseteq DOMAIN arg.diff_report) =>
          LET at == LinesWithPrefix(SpanRemovedOpen \o RemovedKernels)
          IN  /\ Cardinality(at) = IF RemovedNames # <<>> THEN 1 ELSE 0
              /\ RemovedNames # <<>> =>
                    /\ at = {HeaderCount}
                    /\ lines[HeaderCount] = SpanRemovedOpen \o RemovedKernels
                                     \o Join(CommaSpace, RemovedNames) \o SpanClose
              /\ RemovedNames = <<NameK1, NameK1>> => lines[HeaderCount] = <<"<", "s", "p", "a", "n", " ", "c", "l", "a", "s", "s", "=", "'", "r", "e", "m", "o", "v", "e", "d", "'", ">", "R", "e", "m", "o", "v", "e", "d", " ", "K", "e", "r", "n", "e", "l", "s", ":", " ", "k", "1", ",", " ", "k", "1", "<", "/", "s", "p", "a", "n", ">">>
    /\ (ReportCalled /\ HasFields /\ Changed = <<>> /\ RemovedNames = <<>>) =>
          /\ NewNames = <<NameK1>> => result = Returned(<<"<", "s", "p", "a", "n", " ", "c", "l", "a", "s", "s", "=", "'", "a", "d", "d", "e", "d", "'", ">", "N", "e", "w", " ", "K", "e", "r", "n", "e", "l", "s", " ", "F", "o", "u", "n", "d", ":", " ", "k", "1", "<", "/", "s", "p", "a", "n", ">">>)
          /\ NewNames = <<>> => result = Returned(<<>>)

C5_Witness ==
    /\ ReportCalled
    /\ HasFields
    /\ NewNames = <<NameK1>>
    /\ RemovedNames = <<>>
    /\ Changed = <<>>
    /\ result = Returned(lines[1])

\* the fields whose absence the call runs into
MissingFields ==
    ({KeyNewKernels, KeyRemovedKernels, KeyChangedKernels} \ DOMAIN arg.diff_report)
        \cup (IF KeyChangedKernels \in DOMAIN arg.diff_report
                 /\ \E i \in 1..Len(Changed) :
                       KeyInstructionDiff \notin DOMAIN Changed[i].value
              THEN {KeyInstructionDiff} ELSE {})

\* C9: the call either returns the whole report or raises: with any of
\* the three fields or some changed kernel's instruction_diff missing it
\* ends with the KeyError of a missing field and gives the caller no
\* string, whatever lines it had produced by then.
C9_AllOrNothing ==
    ReportCalled =>
        /\ result.kind \in {"return", "KeyError"}
        /\ MissingFields # {} <=> result.kind = "KeyError"
        /\ result.kind = "KeyError" =>
              /\ result.key \in MissingFields
              /\ DOMAIN result = {"kind", "key"}
        /\ result.kind = "return" => IsJoined(result.value, lines)

C9_Witness ==
    /\ ReportCalled
    /\ HasFields
    /\ NewNames # <<>>
    /\ Len(Changed) = 2
    /\ KeyInstructionDiff \in DOMAIN Changed[1].value
    /\ KeyInstructionDiff \notin DOMAIN Changed[2].value
    /\ Len(lines) >= 4
    /\ result = KeyError(KeyInstructionDiff)

EmptyContextLine ==
    <<"<", "s", "p", "a", "n", " ", "c", "l", "a", "s", "s", "=", "'", "l", "i", "n", "e", "-", "n", "u", "m", "b", "e", "r", "'", ">", "<", "/", "s", "p", "a", "n", ">">>

NumLines(out) == IF out = <<>> THEN 0 ELSE 1 + NewlineCount(out)

NewlineFree(names) ==
    \A i \in 1..Len(names) : NewlineCount(names[i]) = 0

\* C10: each changed kernel contributes its heading plus one line per
\* segment, 1 + (1 + the newlines of its instruction_diff) lines; an empty
\* diff gives the heading and one empty line-number line, a diff ending in
\* a newline ends with an empty line-number line; with no newline in any
\* kernel name the output has as many lines as were emitted.
C10_LineCount ==
    (ReportCalled /\ WellFormed) =>
        /\ result.kind = "return"
        /\ Len(lines) = HeaderCount
              + SumSeq([i \in 1..Len(Changed) |-> 1 + (1 + NewlineCount(DiffText(i)))])
        /\ \A q \in 1..Len(lines) :
              HasPrefix(lines[q], HeadingOpen)
                  <=> \E i \in 1..Len(Changed) : q = BlockStart(i) + 1
        /\ \A i \in 1..Len(Changed) :
              LET last == BlockStart(i) + 2 + NewlineCount(DiffText(i))
              IN  /\ DiffText(i) = <<>> =>
                        /\ last = BlockStart(i) + 2
                        /\ lines[last] = EmptyContextLine
                  /\ HasSuffix(DiffText(i), Newline) => lines[last] = EmptyContextLine
        /\ (/\ NewlineFree(NewNames)
            /\ NewlineFree(RemovedNames)
            /\ NewlineFree([i \in 1..Len(Changed) |-> Changed[i].key]))
              => NumLines(result.value) = Len(lines)

C10_Witness ==
    /\ ReportCalled
    /\ WellFormed
    /\ result.kind = "return"
    /\ NewNames = <<NameK1>>
    /\ NewlineFree(RemovedNames)
    /\ Len(Changed) = 1
    /\ Changed[1].key = NameK1
    /\ DiffText(1) = SegAdded \o Newline
    /\ NumLines(result.value) = 4

(***************************************************************************)
(* Properties of both operations.                                          *)
(***************************************************************************)
\* C6: a call's outcome depends on its arguments only: a call made with
\* the arguments of a call kept earlier has the same outcome (the same
\* string, the same nodes, labels and edges, the same error), whatever
\* calls were made in between.
C6_SameArgsSameOutcome ==
    (ref.kind = "call" /\ result # Pending /\ ref.arg = arg) => result = ref.result

C6_Witness ==
    /\ ref.kind = "call"
    /\ ref.others
    /\ ref.arg = arg
    /\ arg.fn = "report"
    /\ result.kind = "return"
    /\ Len(lines) >= 5
    /\ result = ref.result

\* C7: a call leaves its argument object as it was, when it returns and
\* when it raises.
C7_InputUnchanged ==
    [][result' # Pending => arg' = arg]_vars

C7_Witness ==
    /\ ReportCalled
    /\ KeyNewKernels \in DOMAIN arg.diff_report
    /\ Len(NewNames) >= 2
    /\ KeyChangedKernels \in DOMAIN arg.diff_report
    /\ Changed # <<>>
    /\ result = KeyError(KeyRemovedKernels)

====
